---- MODULE Spec2Model ----
(***************************************************************************)
(* Azure Blob "private" file-storage adapters of MIA-LibreChat.            *)
(*                                                                         *)
(* Two backend modules with the same operation set are modelled:           *)
(*   "signed"  api/server/services/Files/AzureBlobPrivate/crud.js          *)
(*             (shared key, SAS signed URLs)                               *)
(*   "direct"  the Workload-Identity variant (unnamed/part_000)            *)
(*                                                                         *)
(* An async handler is not atomic: it runs up to its next await, is         *)
(* suspended there, and is resumed with the outcome of what it awaited.     *)
(* Between two steps of one call the clock may advance and other calls may  *)
(* run.                                                                     *)
(*                                                                         *)
(* JavaScript strings are sequences of one-character strings, so that      *)
(* template literals, String.prototype.split and String.prototype.includes *)
(* are computed as the code computes them.  The value `undefined` is the   *)
(* one-element sequence Undefined, which no real string equals.            *)
(***************************************************************************)
EXTENDS Integers, Sequences, FiniteSets, TLC

VARIABLES
    backend,            \* which backend module the process loaded
    env,                \* process.env as destructured at module load
    tz,                 \* the host's time zone (offsets around one transition)
    clock,              \* the host's clock, seconds (what new Date() reads)
    blobServiceClient,  \* module singleton: 0 is null, n > 0 the n-th client built
    containerClient,    \* module singleton: 0 is null, n > 0 the n-th client built
    svcMade,            \* number of BlobServiceClient constructions so far
    ctrMade,            \* number of getContainerClient constructions so far
    containerExists,    \* whether the configured container exists remotely
    store,              \* the blob store: set of <<container, blobName>>
    pending,            \* the calls suspended at an await, in the order they began
    last                \* the call that took the latest step: arguments, steps, outcome

vars == <<backend, env, tz, clock, blobServiceClient, containerClient,
          svcMade, ctrMade, containerExists, store, pending, last>>

----------------------------------------------------------------------------
(* JavaScript values and string primitives *)

Undefined == <<"<undefined>">>
EmptyStr == <<>>

S_undefined == <<"u","n","d","e","f","i","n","e","d">>
S_https == <<"h","t","t","p","s",":","/","/">>
S_host == <<".","b","l","o","b",".","c","o","r","e",".","w","i","n","d","o","w","s",".","n","e","t">>
S_slash == <<"/">>
S_qmark == <<"?">>
S_se == <<"s","e","=">>
S_srsp == <<"&","s","r","=","c","&","s","p","=">>
S_sig == <<"&","s","i","g","=">>

\* ToString as a template literal `${v}` applies it
ToStr(v) == IF v = Undefined THEN S_undefined ELSE v

\* ToBoolean of a string-or-undefined value
Truthy(v) == v # Undefined /\ v # EmptyStr

\* a default parameter value (p = d) applies when the argument is undefined
Default(v, d) == IF v = Undefined THEN d ELSE v

\* whether sub occurs in s at position i (1-based)
OccursAt(s, sub, i) ==
    /\ i >= 1
    /\ i + Len(sub) - 1 <= Len(s)
    /\ SubSeq(s, i, i + Len(sub) - 1) = sub

\* String.prototype.includes(sub); the argument is converted with ToString
Includes(s, sub) ==
    LET x == ToStr(sub)
    IN  \E i \in 1..(Len(s) + 1) : OccursAt(s, x, i)

\* position of the first occurrence of sub in s at or after i, 0 when none
RECURSIVE IndexFrom(_, _, _)
IndexFrom(s, sub, i) ==
    IF i + Len(sub) - 1 > Len(s) THEN 0
    ELSE IF OccursAt(s, sub, i) THEN i
    ELSE IndexFrom(s, sub, i + 1)

\* String.prototype.split(sep) for a non-empty separator
RECURSIVE Split(_, _)
Split(s, sep) ==
    LET p == IndexFrom(s, sep, 1)
    IN  IF p = 0 THEN <<s>>
        ELSE <<SubSeq(s, 1, p - 1)>> \o Split(SubSeq(s, p + Len(sep), Len(s)), sep)

\* array[i] with a 0-based index: undefined past the end
At0(arr, i) == IF i + 1 <= Len(arr) THEN arr[i + 1] ELSE Undefined

\* p without its trailing "/" characters
RECURSIVE StripTrailingSlashes(_)
StripTrailingSlashes(p) ==
    IF p # <<>> /\ p[Len(p)] = "/"
    THEN StripTrailingSlashes(SubSeq(p, 1, Len(p) - 1))
    ELSE p

\* path.basename(p): trailing "/" characters are ignored, and the result is
\* what follows the last "/" that remains
Basename(p) ==
    LET parts == Split(StripTrailingSlashes(p), S_slash)
    IN  parts[Len(parts)]

\* decimal digits of a natural number
Digit(d) == <<"0","1","2","3","4","5","6","7","8","9">>[d + 1]

RECURSIVE NumStr(_)
NumStr(n) == IF n < 10 THEN <<Digit(n)>> ELSE NumStr(n \div 10) \o <<Digit(n % 10)>>

----------------------------------------------------------------------------
(* Module constants and configuration *)

defaultBasePath == <<"i","m","a","g","e","s">>
DefaultContainerName == <<"f","i","l","e","s">>
DefaultDuration == 5

S_acct == <<"a","c","c","t">>
S_key == <<"k">>
S_other == <<"o">>

\* process.env at module load: a variable is a non-empty string, the empty
\* string, or unset; AZURE_PRIVATE_CONTAINER_NAME = 'files' applies when unset
Environments ==
    { [account |-> a, key |-> k, container |-> Default(c, DefaultContainerName)] :
        a \in {S_acct, Undefined}, k \in {S_key, Undefined}, c \in {Undefined, EmptyStr} }

----------------------------------------------------------------------------
(* Date arithmetic: time values are seconds; a zone has one offset transition *)

UTCZone == [before |-> 0, after |-> 0, transition |-> 0]
\* Europe/Berlin on the day daylight saving time ends: UTC+2 until 01:00Z, then UTC+1
DSTZone == [before |-> 7200, after |-> 3600, transition |-> 3600]
Zones == {UTCZone, DSTZone}

\* instants the clock passes through: 00:58:30Z, 00:59:30Z and 01:30:00Z of that day
Times == <<3510, 3570, 5400>>

\* LocalTZA(t, isUTC) of ECMAScript: a repeated or skipped local time is read
\* with the offset in force before the transition
LocalTZA(t, isUTC) ==
    IF isUTC
    THEN IF t < tz.transition THEN tz.before ELSE tz.after
    ELSE IF t - tz.before < tz.transition THEN tz.before ELSE tz.after

LocalTime(t) == t + LocalTZA(t, TRUE)
UTC(t) == t - LocalTZA(t, FALSE)
Day(t) == t \div 86400
HourFromTime(t) == (t \div 3600) % 24
MinFromTime(t) == (t \div 60) % 60
SecFromTime(t) == t % 60
MakeTime(hour, min, sec) == hour * 3600 + min * 60 + sec
MakeDate(day, time) == day * 86400 + time

\* Date.prototype.getMinutes
getMinutes(tv) == MinFromTime(LocalTime(tv))

\* Date.prototype.setMinutes(min): returns the new time value
setMinutes(tv, min) ==
    LET t == LocalTime(tv)
    IN  UTC(MakeDate(Day(t), MakeTime(HourFromTime(t), min, SecFromTime(t))))

----------------------------------------------------------------------------
(* Capability grants (SAS query parameters) and URLs *)

NoSas == [permissions |-> {}, containerName |-> Undefined, expiresOn |-> 0]
NoUrl == [url |-> Undefined, sas |-> NoSas]

\* a URL value: the blob URL and, when signed, the grant behind its query string
PlainUrl(u) == [url |-> u, sas |-> NoSas]

\* the query string a grant serialises to (the signature is one opaque token)
SasString(g) ==
    S_se \o NumStr(g.expiresOn) \o S_srsp
         \o (IF "read" \in g.permissions THEN <<"r">> ELSE <<>>)
         \o (IF "write" \in g.permissions THEN <<"w">> ELSE <<>>)
         \o S_sig \o <<"SIG">>

\* the string JavaScript sees for a URL value
UrlString(u) == IF u.sas = NoSas THEN u.url ELSE u.url \o S_qmark \o SasString(u.sas)

\* containerClient.getBlockBlobClient(blobName).url
BlockBlobUrl(blobName) ==
    S_https \o env.account \o S_host \o S_slash \o env.container \o S_slash \o blobName

\* the expiry both mint functions compute from the clock
expiryDateTime(duration) == setMinutes(clock, getMinutes(clock) + duration)

createSASReadStringRW(key, accountName, containerName, duration) ==
    [permissions |-> {"read", "write"},
     containerName |-> containerName,
     expiresOn |-> expiryDateTime(duration)]

createSASReadString(key, accountName, containerName, duration) ==
    [permissions |-> {"read"},
     containerName |-> containerName,
     expiresOn |-> expiryDateTime(duration)]

createSASWriteString(blobName, key, accountName, containerName, duration) ==
    [url |-> BlockBlobUrl(blobName),
     sas |-> [permissions |-> {"write"},
              containerName |-> containerName,
              expiresOn |-> expiryDateTime(duration)]]

getSignedDownloadUrl(blobName, key, accountName, containerName, duration) ==
    [url |-> BlockBlobUrl(blobName),
     sas |-> createSASReadString(key, accountName, containerName, duration)]

getDirectBlobUrl(blobName, containerName) ==
    PlainUrl(S_https \o ToStr(env.account) \o S_host \o S_slash
             \o ToStr(containerName) \o S_slash \o blobName)


\* a record of one mint: the grant, when it was minted and for how long
Mint(g, duration) == [grant |-> g, mintedAt |-> clock, duration |-> duration]

\* whether the storage service honours grant g for permission p on a blob of
\* the given container, for a request that reaches it at instant t
Honoured(g, p, container, t) ==
    /\ p \in g.permissions
    /\ g.containerName = container
    /\ t <= g.expiresOn

----------------------------------------------------------------------------
(* Blob path formulas *)

\* `${basePath}/${userId}/${fileName}` of saveBufferToAzureBlobPrivate
SaveBlobPath(basePath, userId, fileName) ==
    ToStr(basePath) \o S_slash \o ToStr(userId) \o S_slash \o ToStr(fileName)

\* the resolve formula with the user segment never emitted
ResolveBlobPathFlat(basePath, userId, fileName) ==
    ToStr(basePath) \o S_slash \o ToStr(fileName)

\* the conditional formula of getAzureBlobPrivateURL
ResolveBlobPath(basePath, userId, fileName) ==
    IF Truthy(userId)
    THEN ToStr(basePath) \o S_slash \o ToStr(userId) \o S_slash \o ToStr(fileName)
    ELSE ToStr(basePath) \o S_slash \o ToStr(fileName)

----------------------------------------------------------------------------
(* Lazy singleton initialisation *)

InitResult(threw, svc, ctr, nsvc, nctr) ==
    [threw |-> threw, svc |-> svc, ctr |-> ctr, svcMade |-> nsvc, ctrMade |-> nctr]

\* the guard "if (blobServiceClient) return" left out
initializeSignedNoGuard ==
    IF Truthy(env.account) /\ Truthy(env.key) /\ Truthy(env.container)
    THEN InitResult(FALSE, svcMade + 1, ctrMade + 1, svcMade + 1, ctrMade + 1)
    ELSE InitResult(TRUE, blobServiceClient, containerClient, svcMade, ctrMade)

\* initializeAzureBlobPrivateService of the signed-URL backend
initializeSigned ==
    IF blobServiceClient # 0
    THEN InitResult(FALSE, blobServiceClient, containerClient, svcMade, ctrMade)
    ELSE IF Truthy(env.account) /\ Truthy(env.key) /\ Truthy(env.container)
    THEN InitResult(FALSE, svcMade + 1, ctrMade + 1, svcMade + 1, ctrMade + 1)
    ELSE InitResult(TRUE, blobServiceClient, containerClient, svcMade, ctrMade)

\* initializeAzureBlobPrivateService of the identity backend; credentialOk is
\* whether new WorkloadIdentityCredential() succeeds
initializeDirect(credentialOk) ==
    IF blobServiceClient # 0
    THEN InitResult(FALSE, blobServiceClient, containerClient, svcMade, ctrMade)
    ELSE IF ~Truthy(env.account) \/ ~Truthy(env.container)
    THEN InitResult(TRUE, blobServiceClient, containerClient, svcMade, ctrMade)
    ELSE IF ~credentialOk
    THEN InitResult(TRUE, blobServiceClient, containerClient, svcMade, ctrMade)
    ELSE InitResult(FALSE, svcMade + 1, ctrMade + 1, svcMade + 1, ctrMade + 1)

\* the initialisation the loaded backend runs
Initialize(fault) ==
    IF backend = "signed" THEN initializeSigned ELSE initializeDirect(fault # "credential")

\* the error initialisation throws: bad configuration, or a rejected credential
InitError(fault) ==
    IF backend = "direct" /\ Truthy(env.account) /\ Truthy(env.container)
    THEN "credential" ELSE "config"

\* a step that leaves the singletons as they are
NoInit == InitResult(FALSE, blobServiceClient, containerClient, svcMade, ctrMade)

----------------------------------------------------------------------------
(* Records of a public call and of the effect of one of its steps *)

NoTarget == <<Undefined, Undefined>>

NoArgs ==
    [userId |-> Undefined, fileName |-> Undefined, basePath |-> Undefined,
     containerName |-> Undefined, filepath |-> NoUrl, reqUser |-> Undefined,
     fileId |-> Undefined, filePath |-> Undefined, blobName |-> Undefined]

\* pc: the await the call is suspended at ("" when it is not suspended);
\* fault: the step of the call the environment made fail ("none": none);
\* steps: the primitives the call has invoked, in order;
\* status: the answer of the delete primitive (0: not answered);
\* issuedAt: when the request the call is waiting for was sent (0: none)
NewCall(op, args) ==
    [op |-> op, args |-> args, pc |-> "", fault |-> "none", steps |-> <<>>,
     result |-> "none", error |-> "", value |-> NoUrl, blobPath |-> Undefined,
     mints |-> <<>>, uploads |-> 0, written |-> FALSE, putSas |-> NoSas,
     target |-> NoTarget, status |-> 0, issuedAt |-> 0]

NoCall == NewCall("none", NoArgs)

\* the call invokes a primitive
Did(c, step) == [c EXCEPT !.steps = Append(@, step)]

\* the call reaches an await and is suspended there
Suspended(c, pc) == [c EXCEPT !.pc = pc, !.result = "pending"]

\* the call ends: its promise is rejected, or resolved with a value
Thrown(c, err) ==
    [c EXCEPT !.pc = "", !.result = "throw", !.error = err, !.issuedAt = 0]
Returned(c, v) ==
    [c EXCEPT !.pc = "", !.result = "return", !.value = v, !.issuedAt = 0]

\* the awaited primitive failed and the handler rethrows
Failed(c, fault, err) == Thrown([c EXCEPT !.fault = fault], err)

\* whether call c has ended
Completed(c) == c.result \in {"return", "throw"}

Effect(ini, exists, st, call) ==
    [svc |-> ini.svc, ctr |-> ini.ctr, svcMade |-> ini.svcMade, ctrMade |-> ini.ctrMade,
     containerExists |-> exists, store |-> st, call |-> call]

\* how many calls may be suspended at once
MaxPending == 1

Remove(seq, i) == SubSeq(seq, 1, i - 1) \o SubSeq(seq, i + 1, Len(seq))

\* one step of a call: of a new call (i = 0) or of the i-th suspended call
Apply(i, effect) ==
    \E e \in {effect} :
    /\ blobServiceClient' = e.svc
    /\ containerClient' = e.ctr
    /\ svcMade' = e.svcMade
    /\ ctrMade' = e.ctrMade
    /\ containerExists' = e.containerExists
    /\ store' = e.store
    /\ last' = e.call
    /\ pending' = IF e.call.result = "pending"
                  THEN IF i = 0 THEN Append(pending, e.call)
                       ELSE [pending EXCEPT ![i] = e.call]
                  ELSE IF i = 0 THEN pending ELSE Remove(pending, i)
    /\ UNCHANGED <<backend, env, tz, clock>>

\* the instants at which a request sent at issuedAt may have reached the
\* service by now
ArrivalTimes(issuedAt) ==
    IF issuedAt = 0 THEN {clock}
    ELSE { Times[k] : k \in { j \in 1..Len(Times) : issuedAt <= Times[j] /\ Times[j] <= clock } }

----------------------------------------------------------------------------
(* The storage service's reading of a blob URL: <<container, blobName>> *)

ParseBlobUrl(url) ==
    LET parts == Split(url, S_slash)
    IN  IF url = Undefined \/ Len(parts) < 5 THEN NoTarget
        ELSE LET skip == Len(parts[1]) + Len(parts[2]) + Len(parts[3]) + Len(parts[4]) + 4
             IN  <<parts[4], SubSeq(url, skip + 1, Len(url))>>

----------------------------------------------------------------------------
(* Save buffer, signed-URL backend *)

\* the error a failed initialisation raises in call c
InitFailed(c, fault) ==
    Failed(c, IF InitError(fault) = "credential" THEN "credential" ELSE "none",
           InitError(fault))

\* the signed upload URL call c obtained from createSASWriteString
UploadUrlOf(c) == [url |-> BlockBlobUrl(c.blobPath), sas |-> c.putSas]

\* uploadBufferToSignedUrl: an awaited fetch PUT whose response is not
\* inspected.  It throws only when fetch rejects ("putReject"); the service
\* writes the blob only when it honours the grant at the instant t the request
\* reaches it and answers 2xx
uploadBufferToSignedUrl(uploadUrl, outcome, t) ==
    [threw |-> outcome = "putReject",
     accepted |-> outcome = "ok"
                  /\ Honoured(uploadUrl.sas, "write", ParseBlobUrl(uploadUrl.url)[1], t)]

\* saveBufferToAzureBlobPrivate from its entry to the await of createIfNotExists
saveBufferSigned(c) ==
    LET ini == initializeSigned
        c0 == Did(c, "init")
    IN  IF ini.threw
        THEN Effect(ini, containerExists, store, InitFailed(c0, "none"))
        ELSE Effect(ini, containerExists, store,
                    Suspended(Did(c0, "createIfNotExists"), "createIfNotExists"))

\* a variant that mints the read grant before the upload has run
saveBufferSignedCreatedEarlyRead(c, outcome) ==
    LET basePath == Default(c.args.basePath, defaultBasePath)
        containerName == Default(c.args.containerName, env.container)
        blobPath == SaveBlobPath(basePath, c.args.userId, c.args.fileName)
        uploadUrl == createSASWriteString(blobPath, env.key, env.account, containerName, DefaultDuration)
        downloadUrl == getSignedDownloadUrl(blobPath, env.key, env.account, containerName, DefaultDuration)
        c1 == [Did(Did(c, "mintWrite"), "mintRead") EXCEPT
                   !.blobPath = blobPath,
                   !.mints = <<Mint(uploadUrl.sas, DefaultDuration),
                               Mint(downloadUrl.sas, DefaultDuration)>>,
                   !.putSas = uploadUrl.sas,
                   !.target = ParseBlobUrl(uploadUrl.url)]
    IN  IF outcome # "ok"
        THEN Effect(NoInit, containerExists, store, Failed(c, "createIfNotExists", "rest500"))
        ELSE Effect(NoInit, TRUE, store, Suspended(c1, "mintWrite"))

\* createIfNotExists has settled: the blob path is computed and the write
\* grant minted, up to the await of createSASWriteString
saveBufferSignedCreated(c, outcome) ==
    LET basePath == Default(c.args.basePath, defaultBasePath)
        containerName == Default(c.args.containerName, env.container)
        blobPath == SaveBlobPath(basePath, c.args.userId, c.args.fileName)
        uploadUrl == createSASWriteString(blobPath, env.key, env.account, containerName, DefaultDuration)
        c1 == [Did(c, "mintWrite") EXCEPT
                   !.blobPath = blobPath,
                   !.mints = <<Mint(uploadUrl.sas, DefaultDuration)>>,
                   !.putSas = uploadUrl.sas,
                   !.target = ParseBlobUrl(uploadUrl.url)]
    IN  IF outcome # "ok"
        THEN Effect(NoInit, containerExists, store, Failed(c, "createIfNotExists", "rest500"))
        ELSE Effect(NoInit, TRUE, store, Suspended(c1, "mintWrite"))

\* the upload URL has arrived: the PUT is sent, up to the await of the upload
saveBufferSignedMinted(c) ==
    Effect(NoInit, containerExists, store,
           Suspended([Did(c, "put") EXCEPT !.uploads = 1, !.issuedAt = clock], "put"))

\* the PUT has settled: the read grant is minted and the signed URL returned
saveBufferSignedUploaded(c, outcome, t) ==
    LET containerName == Default(c.args.containerName, env.container)
        put == uploadBufferToSignedUrl(UploadUrlOf(c), outcome, t)
        c1 == [c EXCEPT !.written = put.accepted,
                        !.fault = IF outcome = "ok" THEN "none" ELSE outcome]
        st == IF put.accepted THEN store \cup {c.target} ELSE store
        downloadUrl == getSignedDownloadUrl(c.blobPath, env.key, env.account, containerName, DefaultDuration)
        c2 == [Did(c1, "mintRead") EXCEPT
                   !.mints = Append(@, Mint(downloadUrl.sas, DefaultDuration))]
    IN  IF put.threw
        THEN Effect(NoInit, containerExists, st, Thrown(c1, "fetch"))
        ELSE Effect(NoInit, containerExists, st, Returned(c2, downloadUrl))

\* the continuation of a suspended save
saveBufferSignedResume(c, outcome, t) ==
    CASE c.pc = "createIfNotExists" -> saveBufferSignedCreated(c, outcome)
      [] c.pc = "mintWrite" -> saveBufferSignedMinted(c)
      [] c.pc = "put" -> saveBufferSignedUploaded(c, outcome, t)

----------------------------------------------------------------------------
(* Save buffer, identity backend *)

\* uploadBufferDirectly from its entry to the await of the SDK upload: the
\* module's container client is dereferenced as it is
uploadBufferDirectly(c, blobName) ==
    IF containerClient = 0
    THEN Thrown(c, "TypeError")
    ELSE Suspended([Did(c, "upload") EXCEPT !.uploads = 1,
                                            !.target = <<env.container, blobName>>],
                   "upload")

\* uploadFileDirectly from its entry to the await of the SDK upload
uploadFileDirectly(c, blobName) ==
    IF containerClient = 0
    THEN Thrown(c, "TypeError")
    ELSE Suspended([Did(c, "upload") EXCEPT !.uploads = 1,
                                            !.target = <<env.container, blobName>>],
                   "upload")

\* the SDK upload has settled: it throws when the service refuses the write
\* ("upload") and when the container does not exist
uploadSettled(c, outcome) ==
    [threw |-> outcome # "ok" \/ ~containerExists,
     error |-> IF outcome # "ok" THEN "rest500" ELSE "rest404",
     accepted |-> outcome = "ok" /\ containerExists]

\* saveBufferToAzureBlobPrivate from its entry to the await of createIfNotExists
saveBufferDirect(c, fault) ==
    LET ini == initializeDirect(fault # "credential")
        c0 == Did(c, "init")
    IN  IF ini.threw
        THEN Effect(ini, containerExists, store, InitFailed(c0, fault))
        ELSE Effect(ini, containerExists, store,
                    Suspended(Did(c0, "createIfNotExists"), "createIfNotExists"))

\* createIfNotExists has settled: the blob path is computed and the upload
\* started
saveBufferDirectCreated(c, outcome) ==
    LET basePath == Default(c.args.basePath, defaultBasePath)
        blobPath == SaveBlobPath(basePath, c.args.userId, c.args.fileName)
    IN  IF outcome # "ok"
        THEN Effect(NoInit, containerExists, store, Failed(c, "createIfNotExists", "rest500"))
        ELSE Effect(NoInit, TRUE, store,
                    uploadBufferDirectly([c EXCEPT !.blobPath = blobPath], blobPath))

\* the upload has settled: the direct URL is returned
saveBufferDirectUploaded(c, outcome) ==
    LET containerName == Default(c.args.containerName, env.container)
        up == uploadSettled(c, outcome)
        c1 == [c EXCEPT !.written = up.accepted,
                        !.fault = IF outcome = "ok" THEN "none" ELSE outcome]
        st == IF up.accepted THEN store \cup {c.target} ELSE store
    IN  IF up.threw
        THEN Effect(NoInit, containerExists, st, Thrown(c1, up.error))
        ELSE Effect(NoInit, containerExists, st,
                    Returned(c1, getDirectBlobUrl(c.blobPath, containerName)))

saveBufferDirectResume(c, outcome) ==
    CASE c.pc = "createIfNotExists" -> saveBufferDirectCreated(c, outcome)
      [] c.pc = "upload" -> saveBufferDirectUploaded(c, outcome)

\* the save the loaded backend runs
saveBuffer(c, fault) ==
    IF backend = "signed" THEN saveBufferSigned(c) ELSE saveBufferDirect(c, fault)

saveBufferResume(c, outcome, t) ==
    IF backend = "signed"
    THEN saveBufferSignedResume(c, outcome, t)
    ELSE saveBufferDirectResume(c, outcome)

\* the exported uploadBufferDirectly / uploadFileDirectly called on their own:
\* the upload has settled
uploadDirectlySettled(c, outcome) ==
    LET up == uploadSettled(c, outcome)
        c1 == [c EXCEPT !.written = up.accepted,
                        !.fault = IF outcome = "ok" THEN "none" ELSE outcome]
        st == IF up.accepted THEN store \cup {c.target} ELSE store
    IN  IF up.threw
        THEN Effect(NoInit, containerExists, st, Thrown(c1, up.error))
        ELSE Effect(NoInit, containerExists, st, Returned(c1, NoUrl))

----------------------------------------------------------------------------
(* Save from a remote URL (the same code in both backends) *)

\* saveURLToAzureBlobPrivate from its entry to the await of fetch(URL)
saveURL(c) ==
    Effect(NoInit, containerExists, store, Suspended(Did(c, "fetch"), "fetch"))

\* a variant that carries on with the body when the fetch has failed
saveURLFetchedIgnoringFailure(c, outcome) ==
    Effect(NoInit, containerExists, store,
           Suspended(Did([c EXCEPT !.fault = IF outcome = "ok" THEN "none" ELSE outcome],
                         "readBody"), "readBody"))

\* the fetch has settled: up to the await of response.buffer()
saveURLFetched(c, outcome) ==
    IF outcome # "ok"
    THEN Effect(NoInit, containerExists, store, Failed(c, "fetch", "fetch"))
    ELSE Effect(NoInit, containerExists, store, Suspended(Did(c, "readBody"), "readBody"))

\* the body has been read: saveBufferToAzureBlobPrivate is called with the
\* same arguments, defaults applied, and awaited
saveURLRead(c, outcome) ==
    IF outcome = "readBody"
    THEN Effect(NoInit, containerExists, store, Failed(c, "readBody", "fetch"))
    ELSE saveBuffer(c, outcome)

saveURLResume(c, outcome, t) ==
    CASE c.pc = "fetch" -> saveURLFetched(c, outcome)
      [] c.pc = "readBody" -> saveURLRead(c, outcome)
      [] OTHER -> saveBufferResume(c, outcome, t)

----------------------------------------------------------------------------
(* Resolve access URL: no await, the call runs in one step *)

\* getAzureBlobPrivateURL of the signed-URL backend
getURLSigned(c) ==
    LET basePath == Default(c.args.basePath, defaultBasePath)
        containerName == Default(c.args.containerName, env.container)
        ini == initializeSigned
        c0 == Did(c, "init")
        blobPath == ResolveBlobPath(basePath, c.args.userId, c.args.fileName)
        url == getSignedDownloadUrl(blobPath, env.key, env.account, containerName, DefaultDuration)
        c1 == [Did(c0, "mintRead") EXCEPT !.blobPath = blobPath,
                                          !.mints = <<Mint(url.sas, DefaultDuration)>>]
    IN  IF ini.threw
        THEN Effect(ini, containerExists, store, InitFailed(c0, "none"))
        ELSE Effect(ini, containerExists, store, Returned(c1, url))

\* getAzureBlobPrivateURL of the identity backend
getURLDirect(c, fault) ==
    LET basePath == Default(c.args.basePath, defaultBasePath)
        containerName == Default(c.args.containerName, env.container)
        ini == initializeDirect(fault # "credential")
        c0 == Did(c, "init")
        blobPath == ResolveBlobPath(basePath, c.args.userId, c.args.fileName)
        c1 == [c0 EXCEPT !.blobPath = blobPath]
    IN  IF ini.threw
        THEN Effect(ini, containerExists, store, InitFailed(c0, fault))
        ELSE Effect(ini, containerExists, store,
                    Returned(c1, getDirectBlobUrl(blobPath, containerName)))

----------------------------------------------------------------------------
(* Delete (the same code in both backends) *)

\* the authorization test with the sense of the condition lost
AuthorizedAlways(blobPath, userId) == TRUE

\* the authorization test of delete: blobPath.includes(req.user.id)
Authorized(blobPath, userId) == Includes(blobPath, userId)

\* a catch block that swallows every error
SwallowedAll(statusCode) == TRUE

\* the catch block of delete: an error is swallowed when error.statusCode === 404
\* (0 stands for an error that carries no statusCode)
Swallowed(statusCode) == statusCode = 404

\* file.filepath.split(`${AZURE_PRIVATE_CONTAINER_NAME}/`)[1]
ExtractBlobPath(filepath) == At0(Split(UrlString(filepath), env.container \o S_slash), 1)

\* deleteFileFromAzureBlobPrivate from its entry to the await of the delete
\* primitive
deleteFile(c, fault) ==
    LET ini == Initialize(fault)
        c0 == Did(c, "init")
        blobPath == ExtractBlobPath(c.args.filepath)
        c1 == [c0 EXCEPT !.blobPath = blobPath]
        c2 == [Did(c1, "delete") EXCEPT !.target = <<env.container, blobPath>>]
    IN  IF ini.threw
        THEN IF Swallowed(0)
             THEN Effect(ini, containerExists, store, Returned(c0, NoUrl))
             ELSE Effect(ini, containerExists, store, InitFailed(c0, fault))
        ELSE IF blobPath = Undefined
        THEN IF Swallowed(0)
             THEN Effect(ini, containerExists, store, Returned(c1, NoUrl))
             ELSE Effect(ini, containerExists, store, Thrown(c1, "TypeError"))
        ELSE IF ~Authorized(blobPath, c.args.reqUser)
        THEN IF Swallowed(0)
             THEN Effect(ini, containerExists, store, Returned(c1, NoUrl))
             ELSE Effect(ini, containerExists, store, Thrown(c1, "auth"))
        ELSE Effect(ini, containerExists, store, Suspended(c2, "delete"))

\* the delete primitive has settled; its failures other than a missing blob
\* are the outcome "delete" (status 500)
deleteFileSettled(c, outcome) ==
    LET status == IF outcome = "delete" THEN 500
                  ELSE IF c.target \in store THEN 202 ELSE 404
        c1 == [c EXCEPT !.status = status,
                        !.fault = IF outcome = "ok" THEN "none" ELSE outcome]
    IN  IF status = 202
        THEN Effect(NoInit, containerExists, store \ {c.target}, Returned(c1, NoUrl))
        ELSE IF Swallowed(status)
        THEN Effect(NoInit, containerExists, store,
                    [Returned(c1, NoUrl) EXCEPT !.error = "swallowed"])
        ELSE Effect(NoInit, containerExists, store,
                    Thrown(c1, IF status = 404 THEN "rest404" ELSE "rest500"))

----------------------------------------------------------------------------
(* Upload from a local file *)

S_sep == <<"_","_">>

\* `${file_id}__${path.basename(inputFilePath)}`
UploadFileName(fileId, filePath) == ToStr(fileId) \o S_sep \o Basename(filePath)

\* uploadFileToSignedUrl from its entry to the await of the fetch PUT.  The
\* local file is read synchronously before fetch is called: fs.statSync throws
\* ENOENT when the file is gone ("fileGone"), fs.readFileSync throws EISDIR
\* when the path is a directory ("fileIsDir"); then no request is sent
uploadFileToSignedUrl(c, file) ==
    IF file = "fileGone" THEN Thrown(c, "ENOENT")
    ELSE IF file = "fileIsDir" THEN Thrown(c, "EISDIR")
    ELSE Suspended([Did(c, "put") EXCEPT !.uploads = 1, !.issuedAt = clock], "put")

\* the PUT of uploadFileToSignedUrl has settled: as in uploadBufferToSignedUrl
\* the response is not inspected
uploadFileToSignedUrlSettled(uploadUrl, outcome, t) ==
    [threw |-> outcome = "putReject",
     accepted |-> outcome = "ok"
                  /\ Honoured(uploadUrl.sas, "write", ParseBlobUrl(uploadUrl.url)[1], t)]

\* uploadFileToAzureBlobPrivate from its entry to the await of fs.promises.stat
uploadFile(c, fault) ==
    LET ini == Initialize(fault)
        c0 == Did(c, "init")
    IN  IF ini.threw
        THEN Effect(ini, containerExists, store, InitFailed(c0, fault))
        ELSE Effect(ini, containerExists, store, Suspended(Did(c0, "stat"), "stat"))

\* stat has settled: file name and blob path are computed, up to the await of
\* createIfNotExists
uploadFileStatted(c, outcome) ==
    LET basePath == Default(c.args.basePath, defaultBasePath)
        fileName == UploadFileName(c.args.fileId, c.args.filePath)
        blobPath == SaveBlobPath(basePath, c.args.reqUser, fileName)
        c1 == [Did(c, "createIfNotExists") EXCEPT !.blobPath = blobPath]
    IN  IF outcome # "ok"
        THEN Effect(NoInit, containerExists, store, Failed(c, "stat", "ENOENT"))
        ELSE Effect(NoInit, containerExists, store, Suspended(c1, "createIfNotExists"))

\* signed-URL backend, createIfNotExists has settled: the write grant is minted
uploadFileSignedCreated(c, outcome) ==
    LET containerName == Default(c.args.containerName, env.container)
        uploadUrl == createSASWriteString(c.blobPath, env.key, env.account, containerName, DefaultDuration)
        c1 == [Did(c, "mintWrite") EXCEPT
                   !.mints = <<Mint(uploadUrl.sas, DefaultDuration)>>,
                   !.putSas = uploadUrl.sas,
                   !.target = ParseBlobUrl(uploadUrl.url)]
    IN  IF outcome # "ok"
        THEN Effect(NoInit, containerExists, store, Failed(c, "createIfNotExists", "rest500"))
        ELSE Effect(NoInit, TRUE, store, Suspended(c1, "mintWrite"))

\* signed-URL backend, the upload URL has arrived: uploadFileToSignedUrl is
\* called; outcome is the state the local file is found in
uploadFileSignedMinted(c, outcome) ==
    Effect(NoInit, containerExists, store, uploadFileToSignedUrl(c, outcome))

\* signed-URL backend, the PUT has settled: the read grant is minted and the
\* descriptor returned
uploadFileSignedUploaded(c, outcome, t) ==
    LET containerName == Default(c.args.containerName, env.container)
        put == uploadFileToSignedUrlSettled(UploadUrlOf(c), outcome, t)
        c1 == [c EXCEPT !.written = put.accepted,
                        !.fault = IF outcome = "ok" THEN "none" ELSE outcome]
        st == IF put.accepted THEN store \cup {c.target} ELSE store
        downloadUrl == getSignedDownloadUrl(c.blobPath, env.key, env.account, containerName, DefaultDuration)
        c2 == [Did(c1, "mintRead") EXCEPT
                   !.mints = Append(@, Mint(downloadUrl.sas, DefaultDuration))]
    IN  IF put.threw
        THEN Effect(NoInit, containerExists, st, Thrown(c1, "fetch"))
        ELSE Effect(NoInit, containerExists, st, Returned(c2, downloadUrl))

\* identity backend, createIfNotExists has settled: the upload is started
uploadFileDirectCreated(c, outcome) ==
    IF outcome # "ok"
    THEN Effect(NoInit, containerExists, store, Failed(c, "createIfNotExists", "rest500"))
    ELSE Effect(NoInit, TRUE, store, uploadFileDirectly(c, c.blobPath))

\* identity backend, the upload has settled: the descriptor is returned
uploadFileDirectUploaded(c, outcome) ==
    LET containerName == Default(c.args.containerName, env.container)
        up == uploadSettled(c, outcome)
        c1 == [c EXCEPT !.written = up.accepted,
                        !.fault = IF outcome = "ok" THEN "none" ELSE outcome]
        st == IF up.accepted THEN store \cup {c.target} ELSE store
    IN  IF up.threw
        THEN Effect(NoInit, containerExists, st, Thrown(c1, up.error))
        ELSE Effect(NoInit, containerExists, st,
                    Returned(c1, getDirectBlobUrl(c.blobPath, containerName)))

uploadFileResume(c, outcome, t) ==
    CASE c.pc = "stat" -> uploadFileStatted(c, outcome)
      [] c.pc = "createIfNotExists" ->
            IF backend = "signed" THEN uploadFileSignedCreated(c, outcome)
            ELSE uploadFileDirectCreated(c, outcome)
      [] c.pc = "mintWrite" -> uploadFileSignedMinted(c, outcome)
      [] c.pc = "put" -> uploadFileSignedUploaded(c, outcome, t)
      [] c.pc = "upload" -> uploadFileDirectUploaded(c, outcome)

----------------------------------------------------------------------------
(* Readable stream retrieval *)

\* getAzureBlobPrivateFileStream of the signed-URL backend, from its entry to
\* the await of the axios GET of the URL
getFileStreamSigned(c) ==
    Effect(NoInit, containerExists, store,
           Suspended([Did(c, "get") EXCEPT !.target = ParseBlobUrl(c.args.filepath.url),
                                            !.issuedAt = clock], "get"))

\* the GET has settled; axios rejects on a failed request and on a non-2xx
\* answer
getFileStreamSignedSettled(c, outcome, t) ==
    LET served == /\ outcome = "ok"
                  /\ c.target \in store
                  /\ Honoured(c.args.filepath.sas, "read", c.target[1], t)
        c1 == [c EXCEPT !.fault = IF outcome = "ok" THEN "none" ELSE outcome]
    IN  IF served
        THEN Effect(NoInit, containerExists, store, Returned(c1, NoUrl))
        ELSE Effect(NoInit, containerExists, store, Thrown(c1, "axios"))

\* the blob name the identity backend's stream retrieval reads
StreamBlobNameDirect(fileURL) == env.container

\* getAzureBlobPrivateFileStream of the identity backend, from its entry to the
\* await of the download: no initialisation;
\* containerClient.getBlobClient(blobName).download()
getFileStreamDirect(c) ==
    LET target == <<env.container, StreamBlobNameDirect(c.args.filepath)>>
    IN  IF containerClient = 0
        THEN Effect(NoInit, containerExists, store, Thrown(c, "TypeError"))
        ELSE Effect(NoInit, containerExists, store,
                    Suspended([Did(c, "download") EXCEPT !.target = target], "download"))

\* the download has settled
getFileStreamDirectSettled(c, outcome) ==
    LET c1 == [c EXCEPT !.fault = IF outcome = "ok" THEN "none" ELSE outcome]
    IN  IF outcome # "ok"
        THEN Effect(NoInit, containerExists, store, Thrown(c1, "rest500"))
        ELSE IF c.target \notin store
        THEN Effect(NoInit, containerExists, store, Thrown(c1, "rest404"))
        ELSE Effect(NoInit, containerExists, store, Returned(c1, NoUrl))

----------------------------------------------------------------------------
(* Inputs *)

U_1 == <<"u","1">>
U_12 == <<"u","1","2">>
F_f == <<"f">>
B_x == <<"x">>
Id_1 == <<"1">>
P_tmp_f == <<"/","t","/","f">>

\* ids of authenticated users (req.user.id)
Users == {U_1, U_12}
\* the userId a caller of save or resolve passes
UserIdArgs == Users \cup {Undefined, EmptyStr}
\* the containerName a caller passes: none, or an override
ContainerArgs == {Undefined, S_other}

\* stored file paths a caller may pass to delete or to stream retrieval: the
\* descriptor the previous call returned, plain URLs of blobs of the
\* configured container, and a string naming no container
StoredPaths ==
    (IF last.op \in {"saveBuffer", "uploadFile"} /\ last.result = "return"
     THEN {last.value} ELSE {})
    \cup { getDirectBlobUrl(SaveBlobPath(defaultBasePath, u, F_f), env.container) : u \in Users }
    \cup { PlainUrl(B_x) }

\* blob names a client of the identity backend passes to the exported upload
\* functions: a user's blob path, and a name with no user segment
DirectBlobNames == {SaveBlobPath(defaultBasePath, U_1, F_f), DefaultContainerName}

\* the credential can be rejected only while the identity backend is not yet
\* initialised: that is the one time it is constructed
InitFaults == IF backend = "direct" /\ blobServiceClient = 0 THEN {"credential"} ELSE {}

\* the states the local file of an upload may be found in when it is read
\* after fs.promises.stat succeeded: still there, removed, or a directory
FileStates == {"ok", "fileGone", "fileIsDir"}

\* what the environment may answer to the await call c is suspended at; for an
\* upload of a local file resumed with its upload URL, the state of the file
Outcomes(c) ==
    CASE c.pc = "createIfNotExists" -> {"ok", "createIfNotExists"}
      [] c.pc = "mintWrite" -> IF c.op = "uploadFile" THEN FileStates ELSE {"ok"}
      [] c.pc = "put" -> {"ok", "putReject", "putHttp"}
      [] c.pc = "upload" -> {"ok", "upload"}
      [] c.pc = "fetch" -> {"ok", "fetch"}
      [] c.pc = "readBody" -> {"ok", "readBody"} \cup InitFaults
      [] c.pc = "stat" -> {"ok", "stat"}
      [] c.pc = "delete" -> {"ok", "delete"}
      [] c.pc = "get" -> {"ok", "network"}
      [] c.pc = "download" -> {"ok", "download"}

----------------------------------------------------------------------------
(* The state machine *)

Init ==
    /\ backend \in {"signed", "direct"}
    /\ env \in Environments
    /\ tz \in (IF backend = "signed" THEN Zones ELSE {UTCZone})
    /\ clock = Times[1]
    /\ blobServiceClient = 0
    /\ containerClient = 0
    /\ svcMade = 0
    /\ ctrMade = 0
    /\ containerExists = FALSE
    /\ store = {}
    /\ pending = <<>>
    /\ last = NoCall

\* time passes, between calls and while calls are suspended (only the
\* signed-URL backend reads the clock)
Tick ==
    /\ backend = "signed"
    /\ \E i \in 1..(Len(Times) - 1) : clock = Times[i] /\ clock' = Times[i + 1]
    /\ UNCHANGED <<backend, env, tz, blobServiceClient, containerClient,
                   svcMade, ctrMade, containerExists, store, pending, last>>

\* whether one more call may be suspended
Free == Len(pending) < MaxPending

SaveBufferSigned ==
    /\ backend = "signed"
    /\ Free
    /\ \E u \in Users, c \in ContainerArgs :
            Apply(0, saveBufferSigned(NewCall("saveBuffer",
                        [NoArgs EXCEPT !.userId = u, !.fileName = F_f, !.containerName = c])))

SaveBufferDirect ==
    /\ backend = "direct"
    /\ Free
    /\ \E u \in Users, c \in ContainerArgs, fault \in {"none"} \cup InitFaults :
            Apply(0, saveBufferDirect(NewCall("saveBuffer",
                        [NoArgs EXCEPT !.userId = u, !.fileName = F_f, !.containerName = c]),
                     fault))

ResumeSaveBuffer ==
    \E i \in 1..Len(pending) :
        /\ pending[i].op = "saveBuffer"
        /\ \E outcome \in Outcomes(pending[i]), t \in ArrivalTimes(pending[i].issuedAt) :
                Apply(i, saveBufferResume(pending[i], outcome, t))

SaveURL ==
    /\ Free
    /\ Apply(0, saveURL(NewCall("saveURL", [NoArgs EXCEPT !.userId = U_1, !.fileName = F_f])))

ResumeSaveURL ==
    \E i \in 1..Len(pending) :
        /\ pending[i].op = "saveURL"
        /\ \E outcome \in Outcomes(pending[i]), t \in ArrivalTimes(pending[i].issuedAt) :
                Apply(i, saveURLResume(pending[i], outcome, t))

GetURLSigned ==
    /\ backend = "signed"
    /\ \E b \in {Undefined, B_x}, u \in UserIdArgs :
            Apply(0, getURLSigned(NewCall("getURL",
                        [NoArgs EXCEPT !.fileName = F_f, !.basePath = b, !.userId = u])))

GetURLDirect ==
    /\ backend = "direct"
    /\ \E b \in {Undefined, B_x}, u \in UserIdArgs, fault \in {"none"} \cup InitFaults :
            Apply(0, getURLDirect(NewCall("getURL",
                        [NoArgs EXCEPT !.fileName = F_f, !.basePath = b, !.userId = u]),
                     fault))

DeleteFile ==
    /\ Free
    /\ \E u \in Users, p \in StoredPaths, fault \in {"none"} \cup InitFaults :
            Apply(0, deleteFile(NewCall("delete",
                        [NoArgs EXCEPT !.reqUser = u, !.filepath = p]), fault))

ResumeDeleteFile ==
    \E i \in 1..Len(pending) :
        /\ pending[i].op = "delete"
        /\ \E outcome \in Outcomes(pending[i]) :
                Apply(i, deleteFileSettled(pending[i], outcome))

UploadFile ==
    /\ Free
    /\ \E c \in ContainerArgs, fault \in {"none"} \cup InitFaults :
            Apply(0, uploadFile(NewCall("uploadFile",
                        [NoArgs EXCEPT !.reqUser = U_1, !.fileId = Id_1, !.filePath = P_tmp_f,
                                       !.containerName = c]), fault))

ResumeUploadFile ==
    \E i \in 1..Len(pending) :
        /\ pending[i].op = "uploadFile"
        /\ \E outcome \in Outcomes(pending[i]), t \in ArrivalTimes(pending[i].issuedAt) :
                Apply(i, uploadFileResume(pending[i], outcome, t))

GetFileStreamSigned ==
    /\ backend = "signed"
    /\ Free
    /\ \E p \in StoredPaths :
            Apply(0, getFileStreamSigned(NewCall("stream", [NoArgs EXCEPT !.filepath = p])))

GetFileStreamDirect ==
    /\ backend = "direct"
    /\ Free
    /\ \E p \in StoredPaths :
            Apply(0, getFileStreamDirect(NewCall("stream", [NoArgs EXCEPT !.filepath = p])))

ResumeGetFileStream ==
    \E i \in 1..Len(pending) :
        /\ pending[i].op = "stream"
        /\ \E outcome \in Outcomes(pending[i]), t \in ArrivalTimes(pending[i].issuedAt) :
                Apply(i, IF backend = "signed"
                         THEN getFileStreamSignedSettled(pending[i], outcome, t)
                         ELSE getFileStreamDirectSettled(pending[i], outcome))

\* a client of the identity backend calls the exported uploadBufferDirectly
UploadBufferDirectly ==
    /\ backend = "direct"
    /\ Free
    /\ \E b \in DirectBlobNames :
            Apply(0, Effect(NoInit, containerExists, store,
                            uploadBufferDirectly(NewCall("uploadBufferDirectly",
                                [NoArgs EXCEPT !.blobName = b]), b)))

\* a client of the identity backend calls the exported uploadFileDirectly
UploadFileDirectly ==
    /\ backend = "direct"
    /\ Free
    /\ \E b \in DirectBlobNames :
            Apply(0, Effect(NoInit, containerExists, store,
                            uploadFileDirectly(NewCall("uploadFileDirectly",
                                [NoArgs EXCEPT !.blobName = b, !.filePath = P_tmp_f]), b)))

ResumeUploadDirectly ==
    \E i \in 1..Len(pending) :
        /\ pending[i].op \in {"uploadBufferDirectly", "uploadFileDirectly"}
        /\ \E outcome \in Outcomes(pending[i]) :
                Apply(i, uploadDirectlySettled(pending[i], outcome))

Next ==
    \/ Tick
    \/ SaveBufferSigned
    \/ SaveBufferDirect
    \/ ResumeSaveBuffer
    \/ SaveURL
    \/ ResumeSaveURL
    \/ GetURLSigned
    \/ GetURLDirect
    \/ DeleteFile
    \/ ResumeDeleteFile
    \/ UploadFile
    \/ ResumeUploadFile
    \/ GetFileStreamSigned
    \/ GetFileStreamDirect
    \/ ResumeGetFileStream
    \/ UploadBufferDirectly
    \/ UploadFileDirectly
    \/ ResumeUploadDirectly

Spec == Init /\ [][Next]_vars
----------------------------------------------------------------------------
(* Properties *)

\* whether call c invoked the primitive named step
Invoked(c, step) == \E i \in 1..Len(c.steps) : c.steps[i] = step

\* whether id is a whole "/"-separated segment of path
IsSegment(path, id) ==
    /\ path # Undefined
    /\ \E i \in 1..Len(Split(path, S_slash)) : Split(path, S_slash)[i] = id

\* the blob path delete extracts from the stored path of call c does not
\* contain the caller's id (or there is no such path)
NotContained(c) ==
    \/ ExtractBlobPath(c.args.filepath) = Undefined
    \/ ~Includes(ExtractBlobPath(c.args.filepath), c.args.reqUser)

\* C1: in both backends a delete whose extracted blob path does not contain
\* req.user.id raises an error, never invokes the blob delete primitive, and
\* leaves the blob store unchanged
C1_UnauthorizedDeleteRefused ==
    [][ (last'.op = "delete" /\ NotContained(last'))
        => /\ last'.result = "throw"
           /\ ~Invoked(last', "delete")
           /\ store' = store ]_vars

\* a delete by a user whose id the path lacks was refused while the blob exists
C1_Witness ==
    /\ last.op = "delete"
    /\ last.blobPath # Undefined
    /\ ~Includes(last.blobPath, last.args.reqUser)
    /\ last.error = "auth"
    /\ <<env.container, last.blobPath>> \in store

\* C2: delete refuses (raises, and does not invoke the delete primitive) unless
\* the requesting user's id is a whole "/"-separated segment of the blob path,
\* so that no user deletes a blob stored under another user's id
C2_SegmentAuthorization ==
    [][ (last'.op = "delete" /\ ~IsSegment(ExtractBlobPath(last'.args.filepath), last'.args.reqUser))
        => /\ last'.result = "throw"
           /\ ~Invoked(last', "delete")
           /\ store' = store ]_vars

\* C3: a not-found (404) answer of the delete primitive makes delete return
\* normally, any other failure of it is raised to the caller unchanged, and a
\* delete of a path whose blob is gone (a repeated delete) returns normally
\* and changes nothing
C3_NotFoundSwallowed ==
    [][ (last'.op = "delete" /\ Completed(last') /\ Invoked(last', "delete"))
        => /\ last'.status = 404 => last'.result = "return"
           /\ last'.status = 500 => (last'.result = "throw" /\ last'.error = "rest500")
           /\ (/\ last.op = "delete" /\ last.result = "pending"
               /\ last'.args = last.args /\ last'.fault = "none"
               /\ last.target \notin store)
              => (last'.status = 404 /\ last'.result = "return" /\ store' = store) ]_vars

\* a delete found the blob missing and returned normally
C3_Witness ==
    /\ last.op = "delete"
    /\ Invoked(last, "delete")
    /\ last.status = 404
    /\ last.result = "return"
    /\ containerExists


\* the base path a call uses: the argument, or the default when none is passed
BasePathOf(c) == Default(c.args.basePath, defaultBasePath)

\* C4 as stated: for every (userId, fileName, basePath), an absent or empty
\* userId included, resolve computes the blob path save computes
C4_SamePathForAll ==
    (last.op = "getURL" /\ last.result = "return")
        => last.blobPath = SaveBlobPath(BasePathOf(last), last.args.userId, last.args.fileName)

\* C4 amended: for every (userId, fileName, basePath) with a non-empty userId
\* resolve and save compute the same blob path; with an absent or empty userId
\* resolve yields basePath/fileName, which save never writes
C4_SamePathForUser ==
    /\ (last.op = "getURL" /\ last.result = "return" /\ Truthy(last.args.userId))
        => last.blobPath = SaveBlobPath(BasePathOf(last), last.args.userId, last.args.fileName)
    /\ (last.op = "getURL" /\ last.result = "return" /\ ~Truthy(last.args.userId))
        => /\ last.blobPath = ToStr(BasePathOf(last)) \o S_slash \o ToStr(last.args.fileName)
           /\ last.blobPath # SaveBlobPath(BasePathOf(last), last.args.userId, last.args.fileName)
    /\ (last.op = "saveBuffer" /\ last.result = "return")
        => last.blobPath = ResolveBlobPath(BasePathOf(last), last.args.userId, last.args.fileName)

\* a resolve for a user's file, with a base path override, after that user saved
C4_Witness ==
    /\ last.op = "getURL"
    /\ last.result = "return"
    /\ last.args.userId = U_12
    /\ last.args.basePath = B_x
    /\ <<env.container, SaveBlobPath(defaultBasePath, U_12, F_f)>> \in store

\* the grant behind the URL a call returned, when it returned one
ReturnedUrl(c) == c.result = "return" /\ c.value # NoUrl

\* C5: in the signed-URL backend every grant minted carries exactly one
\* permission; the grant of the upload PUT is write-only and is the first one
\* the call minted; the grant of every URL returned is read-only and is the
\* last one that same call minted
C5_SinglePurposeGrants ==
    backend = "signed" =>
        /\ \A i \in 1..Len(last.mints) :
              Cardinality(last.mints[i].grant.permissions) = 1
        /\ last.uploads > 0 =>
              /\ last.putSas.permissions = {"write"}
              /\ last.putSas = last.mints[1].grant
        /\ ReturnedUrl(last) =>
              /\ last.value.sas.permissions = {"read"}
              /\ last.steps[Len(last.steps)] = "mintRead"
              /\ last.value.sas = last.mints[Len(last.mints)].grant
              /\ Len(last.mints) = (IF last.op = "getURL" THEN 1 ELSE 2)

\* a save in the signed-URL backend uploaded and returned a signed URL
C5_Witness ==
    /\ backend = "signed"
    /\ last.op = "saveBuffer"
    /\ last.result = "return"
    /\ last.written
    /\ Len(last.mints) = 2

\* C6: the expiry of every grant minted equals the mint time plus exactly the
\* duration, in minutes
C6_ExactExpiry ==
    \A i \in 1..Len(last.mints) :
        last.mints[i].grant.expiresOn = last.mints[i].mintedAt + last.mints[i].duration * 60


\* whether the settings the loaded backend requires are all present
Configured ==
    IF backend = "signed"
    THEN Truthy(env.account) /\ Truthy(env.key) /\ Truthy(env.container)
    ELSE Truthy(env.account) /\ Truthy(env.container)

\* C7: across any sequence of public operations the service client and the
\* container client are constructed at most once; once set, neither handle is
\* reassigned; and a call that initialises while a required setting is absent
\* throws and leaves both handles null
C7_SingletonInit ==
    [][ /\ svcMade' <= 1 /\ ctrMade' <= 1
        /\ blobServiceClient # 0 =>
              /\ blobServiceClient' = blobServiceClient
              /\ containerClient' = containerClient
              /\ svcMade' = svcMade /\ ctrMade' = ctrMade
        /\ (Invoked(last', "init") /\ ~Configured) =>
              /\ last'.result = "throw"
              /\ blobServiceClient' = 0 /\ containerClient' = 0 ]_vars

\* an initialised backend served a later call that ran the initialisation again
C7_Witness ==
    /\ blobServiceClient = 1 /\ containerClient = 1
    /\ svcMade = 1 /\ ctrMade = 1
    /\ store # {}
    /\ last.op = "getURL"
    /\ Invoked(last, "init")
    /\ last.result = "return"

\* C8: when the upload step of save buffer fails the call raises and returns no
\* access descriptor; a descriptor is returned only when the blob was written;
\* and the upload is attempted exactly once
C8_FailedUploadRaises ==
    (last.op = "saveBuffer" /\ Completed(last)) =>
        /\ (last.uploads > 0 /\ ~last.written) => (last.result = "throw" /\ last.value = NoUrl)
        /\ last.result = "return" => (last.written /\ last.target \in store)
        /\ last.uploads <= 1
        /\ Invoked(last, "put") \/ Invoked(last, "upload") => last.uploads = 1

\* the steps of a save chain that follow the fetch
ChainSteps == {"init", "createIfNotExists", "mintWrite", "put", "upload", "mintRead"}

\* C9: in both backends, when the remote fetch or the reading of its body fails
\* in save-from-URL, the failure is raised and no later step of the chain runs:
\* no initialisation, container create, grant minting or upload, and nothing of
\* the module or the store changes
C9_FetchFailureStops ==
    [][ (last'.op = "saveURL" /\ last'.fault \in {"fetch", "readBody"})
        => /\ last'.result = "throw"
           /\ last'.error = "fetch"
           /\ \A i \in 1..Len(last'.steps) : last'.steps[i] \notin ChainSteps
           /\ last'.mints = <<>>
           /\ last'.uploads = 0
           /\ UNCHANGED <<store, containerExists, blobServiceClient, containerClient>> ]_vars

\* a save-from-URL whose fetch failed, on a backend that could have uploaded
C9_Witness ==
    /\ last.op = "saveURL"
    /\ last.fault = "fetch"
    /\ last.result = "throw"
    /\ Configured

\* C10: stream retrieval reads the blob the passed-in URL names: given the
\* descriptor of a saved blob at path P, the stream is opened on the blob at P
C10_StreamReadsUrlBlob ==
    (/\ last.op = "stream"
     /\ ParseBlobUrl(last.args.filepath.url) \in store
     /\ Invoked(last, "get") \/ Invoked(last, "download"))
        => last.target = ParseBlobUrl(last.args.filepath.url)


\* the steps of call c that belong to the signed save chain, in the order taken
RECURSIVE ChainOf(_)
ChainOf(steps) ==
    IF steps = <<>> THEN <<>>
    ELSE IF steps[1] \in {"createIfNotExists", "mintWrite", "put", "mintRead"}
    THEN <<steps[1]>> \o ChainOf(Tail(steps))
    ELSE ChainOf(Tail(steps))

SignedChain == <<"createIfNotExists", "mintWrite", "put", "mintRead">>

\* the step of the chain the environment made raise in call c, 0 when none
RaisedAt(c) ==
    IF c.fault = "createIfNotExists" THEN 1
    ELSE IF c.fault = "putReject" THEN 3
    ELSE 0

\* C11: in the signed-URL backend every save (buffer or local file) takes its
\* steps in the order ensure-container, mint write grant, upload, mint read
\* grant, each after the previous one completed: the steps taken are a prefix
\* of that chain, the read grant is minted only after the upload, and a step
\* that raises is the last step of the call
C11_SequentialChain ==
    (backend = "signed" /\ last.op \in {"saveBuffer", "uploadFile"})
        => LET chain == ChainOf(last.steps)
           IN  /\ Len(chain) <= Len(SignedChain)
               /\ chain = SubSeq(SignedChain, 1, Len(chain))
               /\ Len(last.mints) = Cardinality({i \in 1..Len(chain) :
                                                    chain[i] \in {"mintWrite", "mintRead"}})
               /\ Len(last.mints) = 2 => (last.uploads = 1 /\ last.result = "return")
               /\ RaisedAt(last) > 0 /\ Invoked(last, "createIfNotExists")
                    => (last.result = "throw" /\ Len(chain) = RaisedAt(last))
               /\ last.result = "return" => chain = SignedChain
               /\ (last.result = "pending" /\ chain # <<>>) => chain[Len(chain)] = last.pc
               /\ (last.error \in {"ENOENT", "EISDIR"} /\ Invoked(last, "mintWrite"))
                    => (last.result = "throw" /\ chain = SubSeq(SignedChain, 1, 2)
                        /\ last.uploads = 0)

\* an upload of a local file whose PUT raised after the write grant was minted,
\* on a backend that had completed a save before
C11_Witness ==
    /\ backend = "signed"
    /\ last.op = "uploadFile"
    /\ last.fault = "putReject"
    /\ last.result = "throw"
    /\ Len(last.mints) = 1
    /\ store # {}


\* the user a save or an upload stored the blob for
OwnerOf(c) == IF c.op = "uploadFile" THEN c.args.reqUser ELSE c.args.userId

\* C12: save-then-delete round trip, in both backends: when the descriptor a
\* save or an upload returned is passed as file.filepath to delete by the same
\* user, the blob path delete extracts is the blob path the save wrote, and
\* after delete returns the blob the descriptor names no longer exists (stated
\* for saves into the configured container)
C12_SaveDeleteRoundTrip ==
    [][ /\ (/\ last.op \in {"saveBuffer", "uploadFile"}
            /\ last.args.containerName = Undefined
            /\ last.result = "return"
            /\ last.written
            /\ last'.op = "delete"
            /\ last'.args.filepath = last.value
            /\ last'.args.reqUser = OwnerOf(last))
           => /\ last'.blobPath = last.blobPath
              /\ last'.result = "pending"
        /\ (/\ last.op = "delete"
            /\ last.result = "pending"
            /\ last'.op = "delete"
            /\ last'.args = last.args
            /\ last'.result = "return"
            /\ last'.fault = "none")
           => ParseBlobUrl(last'.args.filepath.url) \notin store' ]_vars

\* whether call c reached a point where the code dereferences containerClient
DerefsContainerClient(c) ==
    \/ c.op \in {"saveBuffer", "saveURL", "uploadFile"} /\ Invoked(c, "createIfNotExists")
    \/ c.op = "getURL" /\ backend = "signed" /\ c.error # "config"
    \/ c.op = "delete" /\ Invoked(c, "delete")
    \/ c.op = "stream" /\ backend = "direct"
    \/ c.op \in {"uploadBufferDirectly", "uploadFileDirectly"}

\* C13: in every order of public calls, the first call of the process
\* included, the container client is initialised (non-null) wherever an
\* operation dereferences it
C13_ClientInitialisedAtUse ==
    DerefsContainerClient(last) => containerClient # 0

\* C14: for every containerName argument, an override of the configured
\* container included, the descriptor a save or an upload returns names the
\* container and the blob path the upload wrote to, and in the signed-URL
\* backend its grant is scoped to that container
C14_DescriptorNamesWrittenBlob ==
    (last.op \in {"saveBuffer", "uploadFile"} /\ last.result = "return")
        => /\ ParseBlobUrl(last.value.url) = last.target
           /\ backend = "signed" =>
                 /\ last.value.sas.containerName = last.target[1]
                 /\ last.putSas.containerName = last.target[1]

====
